---- MODULE Spec2Model ----
(***************************************************************************)
(* Scheduled-job execution engine of xblade: the Task Store operations of  *)
(* scheduler.actions.ts, the Bull queue and its run-scheduler processor of *)
(* schedulerService.ts, the cron loop of schedulerCronService.ts and the   *)
(* next-run calculator.                                                    *)
(*                                                                         *)
(* Time is counted in ticks since a Sunday 00:00 local time, TicksPerHour  *)
(* ticks to the hour; local time has a fixed UTC offset (no DST change).   *)
(***************************************************************************)
EXTENDS Integers, Sequences, FiniteSets, TLC

TicksPerHour == 2
HoursPerDay == 24
DaysPerWeek == 7
TicksPerDay == HoursPerDay * TicksPerHour
MsPerTick == 3600000 \div TicksPerHour

(* Bounds of the model *)
MaxSchedulers == 1      \* schedulers ever created
MaxJobs == 2            \* jobs ever added to the queue
MaxHistory == 2         \* a run starts only with fewer records than this stored
MaxManual == 1          \* runSchedulerManually calls
MaxTicks == 1           \* runSchedulerCheck invocations in progress at once
MaxMatches == 1         \* matches one import stores
MaxEnvSteps == 3        \* calls from outside (create, update, delete, start,
                        \* stop, run-now, cron start and stop) plus moves
                        \* of the clock

MaxCacheTime == 6   \* CacheSpec: minutes the clock of the cache runs
MaxCalls == 2       \* CacheSpec: getClubMatches calls in progress at a time

(* Program constants *)
Attempts == 3                   \* job option attempts
BackoffDelayMs == 2000          \* job option backoff.delay
MAX_CONSECUTIVE_ERRORS == 5
CACHE_TTL == 5 * 60 * 1000      \* eaApiService: 5 minutes, in milliseconds
MsPerMinute == 60000

Monday == 1
StartTime == (Monday * HoursPerDay + 10) * TicksPerHour   \* Monday 10:00

SchedulerIds == 1 .. MaxSchedulers
ClubIds == {1, 2, 3}
RegisteredClubs == {1, 2}       \* the Club collection
ClubLists == {<< >>, <<1, 3, 2>>}
Windows ==
  { [startHour |-> 20, endHour |-> 23, daysOfWeek |-> {2, 3}],
    [startHour |-> 10, endHour |-> 12, daysOfWeek |-> {1}] }

None == -1                      \* an absent Date (undefined / null)
NoConfig == [startHour |-> None, endHour |-> None, daysOfWeek |-> {}]

VARIABLES
  now,          \* the wall clock, in ticks
  envSteps,     \* calls from outside and moves of the clock so far
  schedulers,   \* Task Store: the Scheduler collection, by id
  jobs,         \* Bull queue 'scheduler processing': every job added, by id
  waitList,     \* Bull wait list: ids of waiting jobs, oldest first
  worker,       \* the run-scheduler processor's execution in progress
  manual,       \* runSchedulerManually calls in progress, by request slot
  cron,         \* schedulerCronService module state
  ticks,        \* runSchedulerCheck invocations in progress
  calcNow,      \* CalcSpec: the instant the calculator is evaluated at
  calcCfg,      \* CalcSpec: the schedule window it is evaluated for
  calcResult,   \* CalcSpec: what the calculator returned (None: not called)
  calcBy,       \* CalcSpec: which copy of calculateNextRun was called
  apiCache,     \* CacheSpec: eaApiService's apiCache, by cache key
  cacheNow,     \* CacheSpec: Date.now(), in minutes
  cacheLast,    \* CacheSpec: the latest getClubMatches call and its result
  pending,      \* CacheSpec: getClubMatches calls awaiting fetch, by call slot
  requested     \* CacheSpec: per key, when EA last got a request it answers

vars == <<now, envSteps, schedulers, jobs, waitList, worker, manual, cron, ticks,
          calcNow, calcCfg, calcResult, calcBy,
          apiCache, cacheNow, cacheLast, pending, requested>>
engineVars ==
  <<now, envSteps, schedulers, jobs, waitList, worker, manual, cron, ticks>>
cacheVars == <<apiCache, cacheNow, cacheLast, pending, requested>>
\* what the engine leaves alone: the variables of CalcSpec and of CacheSpec
calcVars == <<calcNow, calcCfg, calcResult, calcBy, cacheVars>>

----------------------------------------------------------------------------
(* Date arithmetic used by calculateNextRun *)

getDay(t) == (t \div TicksPerDay) % DaysPerWeek
getHours(t) == (t \div TicksPerHour) % HoursPerDay
TimeOfDay(t) == t % TicksPerDay

\* new Date(now); setDate(getDate() + daysToAdd); setHours(h, 0, 0, 0)
AtHourOfDay(t, daysToAdd, h) ==
  ((t \div TicksPerDay) + daysToAdd) * TicksPerDay + h * TicksPerHour

\* setHours(getHours() + 1); setMinutes(0); setSeconds(0); setMilliseconds(0)
NextFullHour(t) == ((t \div TicksPerHour) + 1) * TicksPerHour

\* the scan with `testDate >= now` for `testDate > now`
RECURSIVE ScanDays_NotStrict(_, _, _)
ScanDays_NotStrict(t, cfg, daysToAdd) ==
  IF daysToAdd >= DaysPerWeek
    THEN None
    ELSE LET testDate == AtHourOfDay(t, daysToAdd, cfg.startHour)
         IN IF getDay(testDate) \in cfg.daysOfWeek /\ testDate >= t
              THEN testDate
              ELSE ScanDays_NotStrict(t, cfg, daysToAdd + 1)

\* the scan going on for one day more, `daysToAdd <= 7` for `daysToAdd < 7`
RECURSIVE ScanDays_EightDays(_, _, _)
ScanDays_EightDays(t, cfg, daysToAdd) ==
  IF daysToAdd > DaysPerWeek
    THEN None
    ELSE LET testDate == AtHourOfDay(t, daysToAdd, cfg.startHour)
         IN IF getDay(testDate) \in cfg.daysOfWeek /\ testDate > t
              THEN testDate
              ELSE ScanDays_EightDays(t, cfg, daysToAdd + 1)

RECURSIVE ScanDays(_, _, _)
ScanDays(t, cfg, daysToAdd) ==
  IF daysToAdd >= DaysPerWeek
    THEN None
    ELSE LET testDate == AtHourOfDay(t, daysToAdd, cfg.startHour)
         IN IF getDay(testDate) \in cfg.daysOfWeek /\ testDate > t
              THEN testDate
              ELSE ScanDays(t, cfg, daysToAdd + 1)

\* the calculator going to next week's day without scanning this week
calculateNextRun_NoScan(t, cfg) ==
  IF cfg = NoConfig
    THEN NextFullHour(t)
    ELSE AtHourOfDay(t, DaysPerWeek, cfg.startHour)

\* a calculator that remembers what it returned last and goes on from there
calculateNextRun_FromLast(t, cfg) ==
  LET from == IF calcResult # None THEN calcResult ELSE t
  IN IF cfg = NoConfig
       THEN NextFullHour(from)
       ELSE LET hit == ScanDays(from, cfg, 0)
            IN IF hit # None THEN hit
               ELSE AtHourOfDay(from, DaysPerWeek, cfg.startHour)

calculateNextRun(t, cfg) ==
  IF cfg = NoConfig
    THEN NextFullHour(t)
    ELSE LET hit == ScanDays(t, cfg, 0)
         IN IF hit # None THEN hit
            ELSE AtHourOfDay(t, DaysPerWeek, cfg.startHour)

\* schedulerService.ts keeps its own copy of the calculator
RECURSIVE ScanDaysService(_, _, _)
ScanDaysService(t, cfg, daysToAdd) ==
  IF daysToAdd >= DaysPerWeek
    THEN None
    ELSE LET testDate == AtHourOfDay(t, daysToAdd, cfg.startHour)
         IN IF getDay(testDate) \in cfg.daysOfWeek /\ testDate > t
              THEN testDate
              ELSE ScanDaysService(t, cfg, daysToAdd + 1)

calculateNextRunService(t, cfg) ==
  IF cfg = NoConfig
    THEN NextFullHour(t)
    ELSE LET hit == ScanDaysService(t, cfg, 0)
         IN IF hit # None THEN hit
            ELSE AtHourOfDay(t, DaysPerWeek, cfg.startHour)

----------------------------------------------------------------------------
(* Task Store: the Scheduler collection *)

NoDoc ==
  [doc |-> "none", isActive |-> FALSE, scheduleConfig |-> NoConfig,
   clubs |-> << >>, lastRun |-> None, nextRun |-> None,
   executionHistory |-> << >>]
DeletedDoc == [NoDoc EXCEPT !.doc = "deleted"]

Live(id) == schedulers[id].doc = "live"

ExecutionRecord(status, matchesCollected, clubsProcessed) ==
  [timestamp |-> now, status |-> status,
   matchesCollected |-> matchesCollected, clubsProcessed |-> clubsProcessed,
   error |-> (status = "error")]

\* an update with { upsert: true }: it writes whether or not the id is found
findByIdAndUpdate_Upsert(store, id, updated) == [store EXCEPT ![id] = updated]

\* Scheduler.findByIdAndUpdate(id, update): no document, no change
findByIdAndUpdate(store, id, updated) ==
  IF store[id].doc = "live" THEN [store EXCEPT ![id] = updated] ELSE store

CreateScheduler(cfg, clubs, active) ==
  /\ envSteps < MaxEnvSteps
  /\ \E id \in SchedulerIds : schedulers[id].doc = "none"
  /\ LET id == CHOOSE i \in SchedulerIds :
                 /\ schedulers[i].doc = "none"
                 /\ \A j \in SchedulerIds : schedulers[j].doc = "none" => i <= j
     IN schedulers' = [schedulers EXCEPT ![id] =
          [doc |-> "live", isActive |-> active, scheduleConfig |-> cfg,
           clubs |-> clubs, lastRun |-> None,
           nextRun |-> calculateNextRun(now, cfg),
           executionHistory |-> << >>]]
  /\ envSteps' = envSteps + 1
  /\ UNCHANGED <<now, jobs, waitList, worker, manual, cron, ticks, calcVars>>

UpdateScheduler(id, cfg) ==
  /\ envSteps < MaxEnvSteps
  /\ Live(id)
  /\ schedulers' = findByIdAndUpdate(schedulers, id,
       [schedulers[id] EXCEPT !.scheduleConfig = cfg,
                              !.nextRun = calculateNextRun(now, cfg)])
  /\ envSteps' = envSteps + 1
  /\ UNCHANGED <<now, jobs, waitList, worker, manual, cron, ticks, calcVars>>

DeleteScheduler(id) ==
  /\ envSteps < MaxEnvSteps
  /\ Live(id)
  /\ schedulers' = [schedulers EXCEPT ![id] = DeletedDoc]
  /\ envSteps' = envSteps + 1
  /\ UNCHANGED <<now, jobs, waitList, worker, manual, cron, ticks, calcVars>>

StartScheduler(id) ==
  /\ envSteps < MaxEnvSteps
  /\ Live(id)
  /\ schedulers' = findByIdAndUpdate(schedulers, id,
       [schedulers[id] EXCEPT !.isActive = TRUE,
                              !.nextRun = calculateNextRun(now, NoConfig)])
  /\ envSteps' = envSteps + 1
  /\ UNCHANGED <<now, jobs, waitList, worker, manual, cron, ticks, calcVars>>

\* the jobs, those of scheduler id that are in flight marked as stopped
JobsAtStop(id) ==
  [j \in 1 .. Len(jobs) |->
     IF jobs[j].schedulerId = id /\ jobs[j].state \in {"waiting", "active"}
       THEN [jobs[j] EXCEPT !.stopped = TRUE] ELSE jobs[j]]

StopScheduler(id) ==
  /\ envSteps < MaxEnvSteps
  /\ Live(id)
  /\ schedulers' = findByIdAndUpdate(schedulers, id,
       [schedulers[id] EXCEPT !.isActive = FALSE, !.nextRun = None])
  /\ jobs' = JobsAtStop(id)
  /\ envSteps' = envSteps + 1
  /\ UNCHANGED <<now, waitList, worker, manual, cron, ticks, calcVars>>

\* an update that sets executionHistory to the new record instead of pushing
updateSchedulerExecution_Set(store, id, rec) ==
  findByIdAndUpdate(store, id,
    [store[id] EXCEPT !.lastRun = now,
                      !.nextRun = calculateNextRun(now, NoConfig),
                      !.executionHistory = <<rec>>])

\* the store after updateSchedulerExecution(id, executionData)
updateSchedulerExecution(store, id, rec) ==
  findByIdAndUpdate(store, id,
    [store[id] EXCEPT !.lastRun = now,
                      !.nextRun = calculateNextRun(now, NoConfig),
                      !.executionHistory = Append(@, rec)])

\* getSchedulersToRun(): ids of { isActive: true, nextRun: { $lte: now } }
RECURSIVE DueFrom(_)
DueFrom(id) ==
  IF id > MaxSchedulers THEN << >>
  ELSE LET s == schedulers[id]
       IN (IF s.doc = "live" /\ s.isActive /\ s.nextRun # None /\ s.nextRun <= now
             THEN <<id>> ELSE << >>) \o DueFrom(id + 1)
getSchedulersToRun == DueFrom(1)

----------------------------------------------------------------------------
(* Job Queue: the Bull queue and its jobs *)

NewJob(schedulerId, delay) ==
  [schedulerId |-> schedulerId,
   state |-> IF delay > 0 THEN "delayed" ELSE "waiting",
   attemptsMade |-> 0,          \* attempts that have failed so far
   runAt |-> IF delay > 0 THEN now + delay ELSE None,  \* when a delayed job is due
   backoffMs |-> 0,             \* the delay its latest retry was given
   rethrown |-> "none",         \* what the processor's catch block last rethrew
   stopped |-> FALSE]           \* its scheduler was stopped while it was in flight

\* schedulerQueue.add('run-scheduler', { schedulerId }, { delay, ... })
JobsAfterAdd(schedulerId, delay) == Append(jobs, NewJob(schedulerId, delay))
WaitAfterAdd(delay) ==
  IF delay > 0 THEN waitList ELSE Append(waitList, Len(jobs) + 1)

\* a scheduleNextRun that adds its job without a delay
NextRunDelay_Immediate(nextRun) == 0

\* scheduleNextRun: the delay addSchedulerJob is given
NextRunDelay(nextRun) ==
  LET delay == nextRun - now IN IF delay <= 0 THEN 0 ELSE delay

\* a backoff that doubles from the base delay
BackoffMs_Doubling(attemptsMade) == BackoffDelayMs * (2 ^ (attemptsMade - 1))

\* backoff { type: 'exponential', delay } is Bull's built-in strategy:
\* Math.round((Math.pow(2, attemptsMade) - 1) * delay) milliseconds, with
\* attemptsMade the attempts that have failed, this one included
BackoffMs(attemptsMade) == ((2 ^ attemptsMade) - 1) * BackoffDelayMs

\* the job after its processor threw: retried with backoff while attempts
\* remain, failed for good after that
JobAfterThrow(job) ==
  LET made == job.attemptsMade + 1
  IN IF made < Attempts
       THEN [job EXCEPT !.attemptsMade = made, !.state = "delayed",
                        !.backoffMs = BackoffMs(made),
                        !.runAt = now + (BackoffMs(made) \div MsPerTick)]
       ELSE [job EXCEPT !.attemptsMade = made, !.state = "failed"]

\* a delayed job whose time has come moves to the wait list
PromoteDelayed(j) ==
  /\ j \in 1 .. Len(jobs)
  /\ jobs[j].state = "delayed"
  /\ jobs[j].runAt <= now
  /\ jobs' = [jobs EXCEPT ![j].state = "waiting"]
  /\ waitList' = Append(waitList, j)
  /\ UNCHANGED <<now, envSteps, schedulers, worker, manual, cron, ticks, calcVars>>

----------------------------------------------------------------------------
(* Task Runner: one execution of the collection work. An execution is at   *)
(* "record" when its loop has ended, at "setnext" and "schedule" after     *)
(* that in the processor, at "catch" when its catch block is to run.       *)

IdleRun ==
  [pc |-> "idle", id |-> 0, job |-> 0,
   isActive |-> FALSE, scheduleConfig |-> NoConfig, clubs |-> << >>,
   matchesCollected |-> 0, clubsProcessed |-> 0,
   status |-> "success", nextRun |-> None,
   fetchOk |-> FALSE,           \* a fetch of this execution has succeeded
   fetchFailed |-> FALSE,       \* a fetch of this execution has failed
   fetchedAfterFail |-> FALSE,  \* a club was fetched after a failed fetch
   fault |-> "none",            \* what threw into the catch block
   fetched |-> << >>,           \* the clubs importMatchesFromEA was called for
   records |-> << >>]           \* status of each record it has stored

\* the execution once it has loaded scheduler id and found it active
LoadedRun(id, job) ==
  [IdleRun EXCEPT !.pc = "loop", !.id = id, !.job = job,
                  !.isActive = schedulers[id].isActive,
                  !.scheduleConfig = schedulers[id].scheduleConfig,
                  !.clubs = schedulers[id].clubs]

\* what one Data Source fetch yields: a failure, or that many matches
FetchFailure == -1
FetchOutcomes == {FetchFailure} \cup (0 .. MaxMatches)

\* getClubMatches returns null when the request fails, importMatchesFromEA
\* then returns []: the number of matches the caller counts
importMatchesFromEA(outcome) == IF outcome = FetchFailure THEN 0 ELSE outcome

\* an iteration that counts the club and imports its matches without
\* looking it up in the Club collection
ClubStep_NoRegistryCheck(run, clubId, lookupThrows, outcome) ==
  [run EXCEPT
     !.clubsProcessed = @ + 1,
     !.fetched = Append(@, clubId),
     !.matchesCollected = @ + importMatchesFromEA(outcome),
     !.fetchedAfterFail = @ \/ run.fetchFailed,
     !.fetchOk = @ \/ (outcome # FetchFailure),
     !.fetchFailed = @ \/ (outcome = FetchFailure)]

\* one iteration of `for (const clubId of scheduler.clubs)`
ClubStep(run, clubId, lookupThrows, outcome) ==
  IF lookupThrows
    THEN [run EXCEPT !.pc = "catch", !.fault = "lookup"]
  ELSE IF clubId \notin RegisteredClubs
    THEN run
  ELSE [run EXCEPT
          !.clubsProcessed = @ + 1,
          !.fetched = Append(@, clubId),
          !.matchesCollected = @ + importMatchesFromEA(outcome),
          !.fetchedAfterFail = @ \/ run.fetchFailed,
          !.fetchOk = @ \/ (outcome # FetchFailure),
          !.fetchFailed = @ \/ (outcome = FetchFailure)]

\* a loop that throws when the scheduler has no clubs
RECURSIVE LoopOutcomes_EmptyThrows(_, _)
LoopOutcomes_EmptyThrows(run, idx) ==
  IF run.clubs = << >> THEN {[run EXCEPT !.pc = "catch", !.fault = "lookup"]}
  ELSE IF run.pc = "catch" THEN {run}
  ELSE IF idx > Len(run.clubs) THEN {[run EXCEPT !.pc = "record"]}
  ELSE UNION { LoopOutcomes_EmptyThrows(
                 ClubStep(run, run.clubs[idx], lookupThrows, outcome), idx + 1) :
                 lookupThrows \in BOOLEAN, outcome \in FetchOutcomes }

\* every way the loop can go on from its club number idx: it ends past the
\* last club (pc "record") or in the catch block (pc "catch"). The loop
\* touches only the execution's own variables, so it is taken as one step.
RECURSIVE LoopFrom(_, _)
LoopFrom(runs, idx) ==
  LET going == {r \in runs : r.pc # "catch" /\ idx <= Len(r.clubs)}
  IN IF going = {}
       THEN {IF r.pc = "catch" THEN r ELSE [r EXCEPT !.pc = "record"] : r \in runs}
       ELSE LoopFrom((runs \ going) \cup
                       {ClubStep(r, r.clubs[idx], lookupThrows, outcome) :
                          r \in going, lookupThrows \in BOOLEAN,
                          outcome \in FetchOutcomes},
                     idx + 1)

LoopOutcomes(run, idx) == LoopFrom({run}, idx)

\* the statuses an execution has stored, after one more record for id
RecordsAfter(run, status) ==
  IF Live(run.id) THEN Append(run.records, status) ELSE run.records

----------------------------------------------------------------------------
(* The run-scheduler processor. Bull calls it for one job at a time        *)
(* (process() is given no concurrency, so 1).                              *)

\* a processor registered with a concurrency above 1 takes a job while busy
WorkerFree_Concurrent == TRUE

WorkerFree == worker.pc = "idle"

\* the processor takes the oldest waiting job, finds its scheduler active
\* and goes through its clubs
ProcessJob ==
  /\ WorkerFree
  /\ waitList # << >>
  /\ LET j == Head(waitList)
         id == jobs[j].schedulerId
     IN /\ Live(id) /\ schedulers[id].isActive
        /\ Len(schedulers[id].executionHistory) < MaxHistory
        /\ \E run \in LoopOutcomes(LoadedRun(id, j), 1) : worker' = run
        /\ jobs' = [jobs EXCEPT ![j].state = "active"]
  /\ waitList' = Tail(waitList)
  /\ UNCHANGED <<now, envSteps, schedulers, manual, cron, ticks, calcVars>>

\* ... or finds it missing or inactive and returns: the job completes
ProcessJobRejected_Return ==
  /\ WorkerFree
  /\ waitList # << >>
  /\ LET j == Head(waitList)
         id == jobs[j].schedulerId
     IN /\ ~(Live(id) /\ schedulers[id].isActive)
        /\ jobs' = [jobs EXCEPT ![j].state = "completed"]
  /\ waitList' = Tail(waitList)
  /\ UNCHANGED <<now, envSteps, schedulers, worker, manual, cron, ticks, calcVars>>

\* ... or finds it missing or inactive and throws
ProcessJobRejected ==
  /\ WorkerFree
  /\ waitList # << >>
  /\ LET j == Head(waitList)
         id == jobs[j].schedulerId
     IN /\ ~(Live(id) /\ schedulers[id].isActive)
        /\ jobs' = [jobs EXCEPT ![j] = JobAfterThrow(@)]
  /\ waitList' = Tail(waitList)
  /\ UNCHANGED <<now, envSteps, schedulers, worker, manual, cron, ticks, calcVars>>

\* the record step of a processor that drops the run of a stopped scheduler
WorkerRecord_Cancelled ==
  /\ worker.pc = "record"
  /\ IF Live(worker.id) /\ ~schedulers[worker.id].isActive
       THEN /\ worker' = IdleRun
            /\ jobs' = [jobs EXCEPT ![worker.job].state = "completed"]
            /\ UNCHANGED schedulers
       ELSE /\ schedulers' = updateSchedulerExecution(schedulers, worker.id,
                 ExecutionRecord(worker.status, worker.matchesCollected,
                                 worker.clubsProcessed))
            /\ worker' = [worker EXCEPT !.pc = "setnext",
                             !.records = RecordsAfter(worker, worker.status)]
            /\ UNCHANGED jobs
  /\ UNCHANGED <<now, envSteps, waitList, manual, cron, ticks, calcVars>>

\* await updateSchedulerExecution(schedulerId, { status, ... })
WorkerRecord ==
  /\ worker.pc = "record"
  /\ schedulers' = updateSchedulerExecution(schedulers, worker.id,
       ExecutionRecord(worker.status, worker.matchesCollected,
                       worker.clubsProcessed))
  /\ worker' = [worker EXCEPT !.pc = "setnext",
                              !.records = RecordsAfter(worker, worker.status)]
  /\ UNCHANGED <<now, envSteps, jobs, waitList, manual, cron, ticks, calcVars>>

\* nextRun = calculateNextRun(scheduler.scheduleConfig);
\* await Scheduler.findByIdAndUpdate(schedulerId, { lastRun, nextRun })
WorkerSetNextRun ==
  /\ worker.pc = "setnext"
  /\ LET nextRun == calculateNextRunService(now, worker.scheduleConfig)
     IN /\ schedulers' = findByIdAndUpdate(schedulers, worker.id,
             [schedulers[worker.id] EXCEPT !.lastRun = now,
                                           !.nextRun = nextRun])
        /\ worker' = [worker EXCEPT !.pc = "schedule", !.nextRun = nextRun]
  /\ UNCHANGED <<now, envSteps, jobs, waitList, manual, cron, ticks, calcVars>>

\* if (scheduler.isActive) await scheduleNextRun(schedulerId, nextRun);
\* return: the job is completed. The queue may refuse the add (it throws).
WorkerScheduleNext(addThrows) ==
  /\ worker.pc = "schedule"
  /\ IF addThrows
       THEN /\ worker' = [worker EXCEPT !.pc = "catch", !.fault = "add"]
            /\ UNCHANGED <<jobs, waitList>>
       ELSE /\ worker' = IdleRun
            /\ IF worker.isActive
                 THEN /\ Len(jobs) < MaxJobs
                      /\ jobs' = [JobsAfterAdd(worker.id, NextRunDelay(worker.nextRun))
                                    EXCEPT ![worker.job].state = "completed"]
                      /\ waitList' = WaitAfterAdd(NextRunDelay(worker.nextRun))
                 ELSE /\ jobs' = [jobs EXCEPT ![worker.job].state = "completed"]
                      /\ UNCHANGED waitList
  /\ UNCHANGED <<now, envSteps, schedulers, manual, cron, ticks, calcVars>>

\* the catch block without its `throw error`: the job completes
WorkerCatch_Swallow ==
  /\ worker.pc = "catch"
  /\ schedulers' = updateSchedulerExecution(schedulers, worker.id,
       ExecutionRecord("error", worker.matchesCollected, worker.clubsProcessed))
  /\ jobs' = [jobs EXCEPT ![worker.job].state = "completed"]
  /\ worker' = IdleRun
  /\ UNCHANGED <<now, envSteps, waitList, manual, cron, ticks, calcVars>>

\* catch (error): status = 'error'; await updateSchedulerExecution(...);
\* throw error
WorkerCatch ==
  /\ worker.pc = "catch"
  /\ schedulers' = updateSchedulerExecution(schedulers, worker.id,
       ExecutionRecord("error", worker.matchesCollected, worker.clubsProcessed))
  /\ jobs' = [jobs EXCEPT ![worker.job] = JobAfterThrow([@ EXCEPT !.rethrown = worker.fault])]
  /\ worker' = IdleRun
  /\ UNCHANGED <<now, envSteps, waitList, manual, cron, ticks, calcVars>>

----------------------------------------------------------------------------
(* runSchedulerManually: the run-now entry point, one slot per call in progress *)

ManualSlots == 1 .. MaxManual

ManualStart(k, id) ==
  /\ k \in ManualSlots
  /\ manual[k].pc = "idle"
  /\ \A i \in ManualSlots : i < k => manual[i].pc # "idle"
  /\ envSteps < MaxEnvSteps
  /\ Live(id) /\ schedulers[id].isActive
  /\ Len(schedulers[id].executionHistory) < MaxHistory
  /\ \E run \in LoopOutcomes(LoadedRun(id, 0), 1) :
        manual' = [manual EXCEPT ![k] = run]
  /\ envSteps' = envSteps + 1
  /\ UNCHANGED <<now, schedulers, jobs, waitList, worker, cron, ticks, calcVars>>

\* if (!scheduler || !scheduler.isActive) return null
ManualRejected(id) ==
  /\ envSteps < MaxEnvSteps
  /\ ~(Live(id) /\ schedulers[id].isActive)
  /\ envSteps' = envSteps + 1
  /\ UNCHANGED <<now, schedulers, jobs, waitList, worker, manual, cron, ticks,
                 calcVars>>

\* a result built from the status the run began with
ManualResult_InitialStatus(run) ==
  [status |-> "success",
   matchesCollected |-> run.matchesCollected,
   clubsProcessed |-> run.clubsProcessed,
   error |-> FALSE]

\* return { status, matchesCollected, clubsProcessed, duration, error }: what
\* runSchedulerManually returns when its store update has been made, from
\* the local variables of the run; its catch block has set status and
\* errorMessage before
ManualResult(run) ==
  [status |-> IF run.pc = "catch" THEN "error" ELSE run.status,
   matchesCollected |-> run.matchesCollected,
   clubsProcessed |-> run.clubsProcessed,
   error |-> (run.pc = "catch")]

\* findByIdAndUpdate(id, { lastRun, nextRun: calculateNextRun(cfg), $push });
\* return { status, ... }
ManualFinish(k) ==
  /\ k \in ManualSlots
  /\ manual[k].pc = "record"
  /\ LET run == manual[k]
     IN schedulers' = findByIdAndUpdate(schedulers, run.id,
             [schedulers[run.id] EXCEPT
                !.lastRun = now,
                !.nextRun = calculateNextRun(now, run.scheduleConfig),
                !.executionHistory = Append(@,
                   ExecutionRecord(run.status, run.matchesCollected,
                                   run.clubsProcessed))])
  /\ manual' = [manual EXCEPT ![k] = IdleRun]
  /\ UNCHANGED <<now, envSteps, jobs, waitList, worker, cron, ticks, calcVars>>

\* catch (error): findByIdAndUpdate(id, { lastRun, $push })
ManualCatch(k) ==
  /\ k \in ManualSlots
  /\ manual[k].pc = "catch"
  /\ LET run == manual[k]
     IN schedulers' = findByIdAndUpdate(schedulers, run.id,
             [schedulers[run.id] EXCEPT
                !.lastRun = now,
                !.executionHistory = Append(@,
                   ExecutionRecord("error", run.matchesCollected,
                                   run.clubsProcessed))])
  /\ manual' = [manual EXCEPT ![k] = IdleRun]
  /\ UNCHANGED <<now, envSteps, jobs, waitList, worker, cron, ticks, calcVars>>

----------------------------------------------------------------------------
(* Trigger Loop: schedulerCronService and checkAndScheduleSchedulers *)

TickSlots == 1 .. MaxTicks
\* by: who called runSchedulerCheck, the cron service itself (its start or
\* its interval) or triggerManualCheck
IdleTick == [pc |-> "idle", due |-> << >>, by |-> "none"]

FreeTick(k) ==
  /\ k \in TickSlots
  /\ ticks[k].pc = "idle"
  /\ \A i \in TickSlots : i < k => ticks[i].pc # "idle"

\* runSchedulerCheck once checkAndScheduleSchedulers has returned:
\* lastCheckTime = new Date(); errorCount = 0
CheckedCron(c) == [c EXCEPT !.lastCheckTime = now, !.errorCount = 0]

\* runSchedulerCheck starts: checkAndScheduleSchedulers queries the store,
\* and with nothing due it is over at once
TickAfterQuery(by) ==
  IF getSchedulersToRun = << >> THEN IdleTick
  ELSE [pc |-> "scan", due |-> getSchedulersToRun, by |-> by]
CronAfterQuery(c) == IF getSchedulersToRun = << >> THEN CheckedCron(c) ELSE c

\* startSchedulerCron() past its isRunning test: the first check starts at
\* once, setInterval arms one more timer, then isRunning, lastCheckTime and
\* errorCount are set and true is returned.  timers counts the armed
\* intervals, cronInterval says whether the module holds a handle.
CronStarted(k) ==
  /\ FreeTick(k)
  /\ ticks' = [ticks EXCEPT ![k] = TickAfterQuery("cron")]
  /\ cron' = [isRunning |-> TRUE, cronInterval |-> TRUE,
              timers |-> cron.timers + 1,
              lastCheckTime |-> now, errorCount |-> 0, returned |-> TRUE]

\* the early return of startSchedulerCron and of stopSchedulerCron: false
CronRefused ==
  /\ cron' = [cron EXCEPT !.returned = FALSE]
  /\ UNCHANGED ticks

StartSchedulerCron_NoGuard(k) ==
  /\ envSteps < MaxEnvSteps
  /\ CronStarted(k)
  /\ envSteps' = envSteps + 1
  /\ UNCHANGED <<now, schedulers, jobs, waitList, worker, manual, calcVars>>

StartSchedulerCron(k) ==
  /\ envSteps < MaxEnvSteps
  /\ IF cron.isRunning THEN CronRefused ELSE CronStarted(k)
  /\ envSteps' = envSteps + 1
  /\ UNCHANGED <<now, schedulers, jobs, waitList, worker, manual, calcVars>>

\* a stop that forgets clearInterval
StoppedCron_KeepsTimer(c) ==
  [c EXCEPT !.cronInterval = FALSE, !.isRunning = FALSE]

\* stopSchedulerCron() past its isRunning test: clearInterval on the handle
\* held, cronInterval = null, isRunning = false
StoppedCron(c) ==
  [c EXCEPT !.cronInterval = FALSE,
            !.timers = IF c.cronInterval THEN @ - 1 ELSE @,
            !.isRunning = FALSE]

StopSchedulerCron ==
  /\ envSteps < MaxEnvSteps
  /\ IF cron.isRunning
       THEN /\ cron' = [StoppedCron(cron) EXCEPT !.returned = TRUE]
            /\ UNCHANGED ticks
       ELSE CronRefused
  /\ envSteps' = envSteps + 1
  /\ UNCHANGED <<now, schedulers, jobs, waitList, worker, manual, calcVars>>

\* the setInterval callback fires
TimerTick(k) ==
  /\ cron.timers > 0
  /\ FreeTick(k)
  /\ ticks' = [ticks EXCEPT ![k] = TickAfterQuery("cron")]
  /\ cron' = CronAfterQuery(cron)
  /\ UNCHANGED <<now, envSteps, schedulers, jobs, waitList, worker, manual, calcVars>>

TriggerManualCheck(k) ==
  /\ FreeTick(k)
  /\ ticks' = [ticks EXCEPT ![k] = TickAfterQuery("manual")]
  /\ cron' = CronAfterQuery(cron)
  /\ UNCHANGED <<now, envSteps, schedulers, jobs, waitList, worker, manual, calcVars>>

\* a test that takes every scheduler for queued
isAlreadyQueued_Always(id) == TRUE

\* [...waitingJobs, ...activeJobs].some(job => job.data.schedulerId === id)
isAlreadyQueued(id) ==
  \E j \in 1 .. Len(jobs) :
     /\ jobs[j].state \in {"waiting", "active"}
     /\ jobs[j].schedulerId = id

\* the tick with the first of its due schedulers dealt with: on to the next,
\* or over
TickAfterFirst(tick) ==
  IF Len(tick.due) = 1 THEN IdleTick
  ELSE [pc |-> "scan", due |-> Tail(tick.due), by |-> tick.by]
CronAfterFirst(tick) == IF Len(tick.due) = 1 THEN CheckedCron(cron) ELSE cron

\* getWaiting(), getActive() and the test for the next due scheduler
TickCheck(k) ==
  /\ k \in TickSlots
  /\ ticks[k].pc = "scan"
  /\ IF isAlreadyQueued(Head(ticks[k].due))
       THEN /\ ticks' = [ticks EXCEPT ![k] = TickAfterFirst(@)]
            /\ cron' = CronAfterFirst(ticks[k])
       ELSE /\ ticks' = [ticks EXCEPT ![k].pc = "add"]
            /\ UNCHANGED cron
  /\ UNCHANGED <<now, envSteps, schedulers, jobs, waitList, worker, manual, calcVars>>

\* await addSchedulerJob(id)
TickAdd(k) ==
  /\ k \in TickSlots
  /\ ticks[k].pc = "add"
  /\ Len(jobs) < MaxJobs
  /\ jobs' = JobsAfterAdd(Head(ticks[k].due), 0)
  /\ waitList' = WaitAfterAdd(0)
  /\ ticks' = [ticks EXCEPT ![k] = TickAfterFirst(@)]
  /\ cron' = CronAfterFirst(ticks[k])
  /\ UNCHANGED <<now, envSteps, schedulers, worker, manual, calcVars>>

\* Whether an error of the store query or of the queue leaves
\* checkAndScheduleSchedulers: getSchedulersToRun catches its own and returns
\* [], checkAndScheduleSchedulers catches the rest and returns
ErrorEscapesCheck == FALSE

\* the catch of runSchedulerCheck: errorCount++, and stopSchedulerCron() at
\* MAX_CONSECUTIVE_ERRORS
CronAfterError(c) ==
  IF c.errorCount + 1 >= MAX_CONSECUTIVE_ERRORS /\ c.isRunning
    THEN [StoppedCron(c) EXCEPT !.errorCount = c.errorCount + 1]
    ELSE [c EXCEPT !.errorCount = c.errorCount + 1]

\* runSchedulerCheck once checkAndScheduleSchedulers has met an error
CronAfterFailure(c) ==
  IF ErrorEscapesCheck THEN CronAfterError(c) ELSE CheckedCron(c)

\* the catch met by an error of a tick: the due schedulers left are not
\* looked at
CaughtTick(by) == [pc |-> "caught", due |-> << >>, by |-> by]

\* a timer tick whose store query fails: getSchedulersToRun catches
TickStoreFails(k) ==
  /\ cron.timers > 0
  /\ FreeTick(k)
  /\ ticks' = [ticks EXCEPT ![k] = CaughtTick("cron")]
  /\ UNCHANGED <<now, envSteps, schedulers, jobs, waitList, worker, manual,
                 cron, calcVars>>

\* getWaiting(), getActive() or add() throws: checkAndScheduleSchedulers
\* catches
TickQueueFails(k) ==
  /\ k \in TickSlots
  /\ ticks[k].pc \in {"scan", "add"}
  /\ ticks' = [ticks EXCEPT ![k] = CaughtTick(@.by)]
  /\ UNCHANGED <<now, envSteps, schedulers, jobs, waitList, worker, manual,
                 cron, calcVars>>

\* runSchedulerCheck goes on after the error of its tick
TickCaught(k) ==
  /\ k \in TickSlots
  /\ ticks[k].pc = "caught"
  /\ ticks' = [ticks EXCEPT ![k] = IdleTick]
  /\ cron' = CronAfterFailure(cron)
  /\ UNCHANGED <<now, envSteps, schedulers, jobs, waitList, worker, manual,
                 calcVars>>

----------------------------------------------------------------------------
(* The clock *)

\* The clock moves on to an instant something is scheduled for: the nextRun
\* of a scheduler or the due time of a delayed job.
ClockTargets ==
  {schedulers[id].nextRun : id \in SchedulerIds}
    \cup {jobs[j].runAt : j \in 1 .. Len(jobs)}

AdvanceClock(t) ==
  /\ envSteps < MaxEnvSteps
  /\ t \in ClockTargets
  /\ t > now
  /\ now' = t
  /\ envSteps' = envSteps + 1
  /\ UNCHANGED <<schedulers, jobs, waitList, worker, manual, cron, ticks, calcVars>>

----------------------------------------------------------------------------
(* eaApiService: the cache of EA answers. A string is the list of its     *)
(* parts between hyphens, so that a template string `a-${x}-${y}` is the   *)
(* concatenation of the lists.                                             *)

CacheClubIds == {<<"101">>, <<"202">>}
CachePlatforms == {<<"common", "gen5">>}
CacheMatchTypes == {<<"club_private">>}
CacheArgs ==
  [clubId : CacheClubIds, platform : CachePlatforms, matchType : CacheMatchTypes]

\* `matches-${clubId}-${platform}-${matchType}`
cacheKey(args) == <<"matches">> \o args.clubId \o args.platform \o args.matchType

CacheKeys == {cacheKey(args) : args \in CacheArgs}

NoEntry == [data |-> "none", timestamp |-> None]
\* the latest call: its arguments, when it was made, the timestamp of the
\* entry it found under its key (None: no entry), what it returned
NoCall == [kind |-> "none"]

\* an entry as old as the TTL still passes
isCacheValid_Inclusive(timestamp) ==
  (cacheNow - timestamp) * MsPerMinute <= CACHE_TTL

\* Date.now() - timestamp < CACHE_TTL
isCacheValid(timestamp) == (cacheNow - timestamp) * MsPerMinute < CACHE_TTL

\* cachedData && isCacheValid(cachedData.timestamp)
CacheHit(key) == apiCache[key] # NoEntry /\ isCacheValid(apiCache[key].timestamp)

\* what EA answers to a request: the matches of the club asked for, as
\* they are at the time
Answer(args) == [of |-> args, asOf |-> cacheNow]

\* the calls of getClubMatches that can be in progress at a time
CallSlots == 1 .. MaxCalls
NoPending == [state |-> "free"]

FreeCall(c) ==
  /\ c \in CallSlots
  /\ pending[c].state = "free"
  /\ \A i \in CallSlots : i < c => pending[i].state = "free"

\* getClubMatches(clubId, platform, matchType) as far as its first await:
\* the cached data is returned, or the request goes out to EA (ok: EA will
\* answer it with 200) and the call waits for `await fetch(url, ...)`
GetClubMatches(c, args, ok) ==
  /\ FreeCall(c)
  /\ LET key == cacheKey(args)
     IN IF CacheHit(key)
          THEN /\ cacheLast' = [kind |-> "cached", args |-> args, at |-> cacheNow,
                                  found |-> apiCache[key].timestamp,
                                  data |-> apiCache[key].data,
                                  timestamp |-> apiCache[key].timestamp]
               /\ UNCHANGED <<pending, requested>>
          ELSE /\ pending' = [pending EXCEPT ![c] =
                                [state |-> "fetching", args |-> args, ok |-> ok]]
               /\ requested' = IF ok THEN [requested EXCEPT ![key] = cacheNow]
                               ELSE requested
               /\ UNCHANGED cacheLast
  /\ UNCHANGED <<engineVars, calcNow, calcCfg, calcResult, calcBy, cacheNow,
                 apiCache>>

\* the rest of getClubMatches, when fetch has settled: on a 200 answer
\* apiCache.set(cacheKey, { data, timestamp: Date.now() }) and return data,
\* otherwise the catch block returns null
FetchAnswered(c) ==
  /\ c \in CallSlots
  /\ pending[c].state = "fetching"
  /\ LET args == pending[c].args
         key == cacheKey(args)
     IN IF pending[c].ok
          THEN /\ apiCache' = [apiCache EXCEPT ![key] =
                                  [data |-> Answer(args), timestamp |-> cacheNow]]
               /\ cacheLast' = [kind |-> "fetched", args |-> args, at |-> cacheNow,
                                  found |-> apiCache[key].timestamp,
                                  data |-> Answer(args), timestamp |-> cacheNow]
          ELSE /\ cacheLast' = [kind |-> "null", args |-> args, at |-> cacheNow,
                                  found |-> apiCache[key].timestamp,
                                  data |-> "none", timestamp |-> None]
               /\ UNCHANGED apiCache
  /\ pending' = [pending EXCEPT ![c] = NoPending]
  /\ UNCHANGED <<engineVars, calcNow, calcCfg, calcResult, calcBy, cacheNow,
                 requested>>

\* clearExpiredCache()
ClearExpiredCache ==
  /\ apiCache' = [key \in CacheKeys |->
                    IF apiCache[key] # NoEntry /\ ~isCacheValid(apiCache[key].timestamp)
                      THEN NoEntry ELSE apiCache[key]]
  /\ cacheLast' = NoCall
  /\ UNCHANGED <<engineVars, calcNow, calcCfg, calcResult, calcBy, cacheNow,
                 pending, requested>>

\* clearAllCache()
ClearAllCache ==
  /\ apiCache' = [key \in CacheKeys |-> NoEntry]
  /\ cacheLast' = NoCall
  /\ UNCHANGED <<engineVars, calcNow, calcCfg, calcResult, calcBy, cacheNow,
                 pending, requested>>

\* a minute passes
CacheMinute ==
  /\ cacheNow < MaxCacheTime
  /\ cacheNow' = cacheNow + 1
  /\ UNCHANGED <<engineVars, calcNow, calcCfg, calcResult, calcBy, apiCache,
                 cacheLast, pending, requested>>

----------------------------------------------------------------------------
(* Spec: the engine *)

Init ==
  /\ now = StartTime
  /\ envSteps = 0
  /\ schedulers = [id \in SchedulerIds |-> NoDoc]
  /\ jobs = << >>
  /\ waitList = << >>
  /\ worker = IdleRun
  /\ manual = [k \in ManualSlots |-> IdleRun]
  /\ cron = [isRunning |-> TRUE, cronInterval |-> TRUE, timers |-> 1,
             lastCheckTime |-> StartTime, errorCount |-> 0, returned |-> TRUE]
  /\ ticks = [k \in TickSlots |-> IdleTick]
  /\ calcNow = 0
  /\ calcCfg = NoConfig
  /\ calcResult = None
  /\ calcBy = "none"
  /\ apiCache = [key \in CacheKeys |-> NoEntry]
  /\ cacheNow = 0
  /\ cacheLast = NoCall
  /\ pending = [c \in CallSlots |-> NoPending]
  /\ requested = [key \in CacheKeys |-> None]

Next ==
  \/ \E cfg \in Windows, clubs \in ClubLists, active \in BOOLEAN :
        CreateScheduler(cfg, clubs, active)
  \/ \E id \in SchedulerIds, cfg \in Windows : UpdateScheduler(id, cfg)
  \/ \E id \in SchedulerIds : DeleteScheduler(id)
  \/ \E id \in SchedulerIds : StartScheduler(id)
  \/ \E id \in SchedulerIds : StopScheduler(id)
  \/ \E j \in 1 .. MaxJobs : PromoteDelayed(j)
  \/ ProcessJob
  \/ ProcessJobRejected
  \/ WorkerRecord
  \/ WorkerSetNextRun
  \/ \E addThrows \in BOOLEAN : WorkerScheduleNext(addThrows)
  \/ WorkerCatch
  \/ \E k \in ManualSlots, id \in SchedulerIds : ManualStart(k, id)
  \/ \E id \in SchedulerIds : ManualRejected(id)
  \/ \E k \in ManualSlots : ManualFinish(k)
  \/ \E k \in ManualSlots : ManualCatch(k)
  \/ \E k \in TickSlots : StartSchedulerCron(k)
  \/ StopSchedulerCron
  \/ \E k \in TickSlots : TimerTick(k)
  \/ \E k \in TickSlots : TriggerManualCheck(k)
  \/ \E k \in TickSlots : TickCheck(k)
  \/ \E k \in TickSlots : TickAdd(k)
  \/ \E k \in TickSlots : TickStoreFails(k)
  \/ \E k \in TickSlots : TickQueueFails(k)
  \/ \E k \in TickSlots : TickCaught(k)
  \/ \E t \in ClockTargets : AdvanceClock(t)

Spec == Init /\ [][Next]_vars

----------------------------------------------------------------------------
(* Properties of the engine, checked under Spec *)

Executions == {worker} \cup {manual[k] : k \in ManualSlots}
InProgress(id) ==
  (IF worker.pc # "idle" /\ worker.id = id THEN 1 ELSE 0)
    + Cardinality({k \in ManualSlots : manual[k].pc # "idle" /\ manual[k].id = id})
JobIds == 1 .. Len(jobs)
InFlightJobs(id) ==
  {j \in JobIds : jobs[j].schedulerId = id /\ jobs[j].state \in {"waiting", "active"}}
ActiveJobs(id) ==
  {j \in JobIds : jobs[j].schedulerId = id /\ jobs[j].state = "active"}
LastOf(store, id) ==
  store[id].executionHistory[Len(store[id].executionHistory)]
LastRecord(id) == LastOf(schedulers, id)

\* C1: at most one Runner execution (queued or run-now) is in progress for
\* a task id at any time.
C1_OneExecutionPerTask == \A id \in SchedulerIds : InProgress(id) <= 1

\* C2: the queue holds at most one waiting-or-active job per task id.
C2_OneInFlightJobPerTask ==
  \A id \in SchedulerIds : Cardinality(InFlightJobs(id)) <= 1

\* C3: two jobs queued for the same task id are never executed by the
\* processor at the same time: at most one of a task's jobs is active, and
\* it is the one the processor is working on.
C3_QueuedExecutionsDoNotOverlap ==
  \A id \in SchedulerIds :
     /\ Cardinality(ActiveJobs(id)) <= 1
     /\ \A j \in ActiveJobs(id) : worker.pc # "idle" /\ worker.job = j

\* C3 witness: two jobs of one task are in the queue together, the
\* processor executes one of them and the other waits.
C3_Witness ==
  \E j1, j2 \in JobIds :
     /\ j1 # j2
     /\ jobs[j1].schedulerId = jobs[j2].schedulerId
     /\ jobs[j1].state = "active" /\ worker.job = j1
     /\ jobs[j2].state = "waiting"

\* C4: a task whose active flag is false has no nextRun.
C4_InactiveHasNoNextRun ==
  \A id \in SchedulerIds :
     (Live(id) /\ ~schedulers[id].isActive) => schedulers[id].nextRun = None

\* C5: a nextRun that is present falls on a weekday of the task's
\* daysOfWeek, at the task's startHour.
C5_NextRunInWindow ==
  \A id \in SchedulerIds :
     (Live(id) /\ schedulers[id].nextRun # None) =>
        /\ getDay(schedulers[id].nextRun) \in schedulers[id].scheduleConfig.daysOfWeek
        /\ getHours(schedulers[id].nextRun) = schedulers[id].scheduleConfig.startHour

\* C8: an execution one of whose fetches failed is aborted there: nothing
\* is fetched after the failure, it is on its way to the error record, and
\* it stores no record other than an error one.
C8_FetchFailureAbortsRun ==
  \A run \in Executions :
     run.fetchFailed =>
        /\ ~run.fetchedAfterFail
        /\ run.pc = "catch"
        /\ \A i \in 1 .. Len(run.records) : run.records[i] = "error"

\* C9: a queued execution all of whose fetches fail stores an error record
\* and makes its job fail; the job is retried, and three retries have been
\* made when it ends for good.
C9_AlwaysFailingSourceIsRetried ==
  [][ (worker.pc # "idle" /\ worker.fetchFailed /\ ~worker.fetchOk) =>
        /\ (Len(worker'.records) > Len(worker.records) =>
              worker'.records[Len(worker'.records)] = "error")
        /\ (jobs'[worker.job].state # "active" =>
              /\ jobs'[worker.job].state \in {"delayed", "failed"}
              /\ jobs'[worker.job].state = "failed" =>
                    jobs[worker.job].attemptsMade = Attempts
              /\ Live(worker.id) => LastOf(schedulers', worker.id).status = "error") ]_vars

StoredOutcome(id, status, matchesCollected, clubsProcessed) ==
  /\ schedulers'[id].executionHistory
       = Append(schedulers[id].executionHistory,
                ExecutionRecord(status, matchesCollected, clubsProcessed))
  /\ schedulers'[id].lastRun = now
  /\ schedulers'[id].isActive =>
       /\ schedulers'[id].nextRun
            = calculateNextRun(now, schedulers'[id].scheduleConfig)
       /\ schedulers'[id].nextRun > now

\* the steps in which an execution writes its outcome to the store
ManualEnds(k) == manual[k].pc \in {"record", "catch"} /\ manual'[k].pc = "idle"
WorkerFails == worker.pc = "catch" /\ worker'.pc = "idle"
WorkerSucceeds == worker.pc = "setnext" /\ worker'.pc = "schedule"

\* C11: every execution of a task that is present, ended in success or in
\* error, appends a record with that status and its counts, sets lastRun
\* and, the task being active, leaves the calculator's result for the
\* task's window, an instant after now, as nextRun.
C11_OutcomeStored ==
  [][ /\ \A k \in ManualSlots :
           (ManualEnds(k) /\ Live(manual[k].id)) =>
              StoredOutcome(manual[k].id,
                 IF manual[k].pc = "catch" THEN "error" ELSE manual[k].status,
                 manual[k].matchesCollected, manual[k].clubsProcessed)
      /\ (WorkerFails /\ Live(worker.id)) =>
            StoredOutcome(worker.id, "error",
                          worker.matchesCollected, worker.clubsProcessed)
      /\ (WorkerSucceeds /\ Live(worker.id)) =>
            /\ schedulers'[worker.id].lastRun = now
            /\ schedulers'[worker.id].isActive =>
                 schedulers'[worker.id].nextRun
                   = calculateNextRun(now, schedulers'[worker.id].scheduleConfig)
    ]_vars

\* scheduler id has been stopped while execution run of it is in progress
StoppedDuring(run) ==
  run.pc # "idle" /\ Live(run.id) /\ ~schedulers[run.id].isActive

\* C12: an execution whose task was stopped while it ran leaves the task
\* inactive and without nextRun in each of its steps, and adds no job for it.
C12_StopSurvivesRun ==
  [][ /\ \A k \in ManualSlots :
           (StoppedDuring(manual[k]) /\ manual'[k] # manual[k]) =>
              /\ ~schedulers'[manual[k].id].isActive
              /\ schedulers'[manual[k].id].nextRun = None
      /\ (StoppedDuring(worker) /\ worker' # worker) =>
            /\ ~schedulers'[worker.id].isActive
            /\ schedulers'[worker.id].nextRun = None
            /\ Len(jobs') = Len(jobs)
    ]_vars

\* the processor takes the oldest waiting job and finds its scheduler
\* missing or inactive
WorkerRejects ==
  /\ worker.pc = "idle" /\ waitList # << >> /\ waitList' = Tail(waitList)
  /\ ~(Live(jobs[Head(waitList)].schedulerId)
         /\ schedulers[jobs[Head(waitList)].schedulerId].isActive)

\* an execution begins in this step only for a scheduler present and active
BeginsOnlyActive ==
  /\ (worker.pc = "idle" /\ worker'.pc # "idle") =>
        Live(worker'.id) /\ schedulers[worker'.id].isActive
  /\ \A k \in ManualSlots :
        (manual[k].pc = "idle" /\ manual'[k].pc # "idle") =>
           Live(manual'[k].id) /\ schedulers[manual'[k].id].isActive

\* C13 as claimed: an invocation for a scheduler missing or inactive begins
\* no execution and leaves the store alone, and the job is not failed and
\* not retried.
C13_RejectedIsNoOp ==
  [][ /\ BeginsOnlyActive
      /\ WorkerRejects =>
           /\ schedulers' = schedulers /\ worker' = worker
           /\ jobs'[Head(waitList)].attemptsMade = jobs[Head(waitList)].attemptsMade
           /\ jobs'[Head(waitList)].state \notin {"delayed", "failed"}
    ]_vars

\* C13 as amended: an invocation for a scheduler missing or inactive begins
\* no execution (no fetch) and leaves the store alone (no record, lastRun
\* and nextRun as they were); the manual call returns null, the queued job
\* has its processor throw: the attempt counts as failed and the job is
\* retried while attempts remain.
C13_RejectedJobFails ==
  [][ /\ BeginsOnlyActive
      /\ WorkerRejects =>
           /\ schedulers' = schedulers /\ worker' = worker
           /\ jobs'[Head(waitList)].attemptsMade
                = jobs[Head(waitList)].attemptsMade + 1
           /\ jobs'[Head(waitList)].state =
                IF jobs[Head(waitList)].attemptsMade + 1 < Attempts
                  THEN "delayed" ELSE "failed"
    ]_vars

\* C13 witness: the job of a stopped scheduler, rejected by the processor,
\* waits for its retry with no record stored
C13_Witness ==
  \E j \in JobIds :
     /\ jobs[j].state = "delayed" /\ jobs[j].attemptsMade > 0
     /\ jobs[j].rethrown = "none"
     /\ Live(jobs[j].schedulerId)
     /\ ~schedulers[jobs[j].schedulerId].isActive
     /\ schedulers[jobs[j].schedulerId].executionHistory = << >>

\* a runSchedulerCheck invocation queries the store in this step
TickQueries(k) == ticks[k].pc = "idle" /\ ticks'[k].pc = "scan"

\* C14: once an active task is stopped it is inactive without nextRun, and
\* stays so until it is started; a tick that queries the store gets only
\* active tasks, and a tick enqueues only tasks its query returned.
C14_StoppedIsNotScheduled ==
  [][ /\ \A id \in SchedulerIds :
           (Live(id) /\ schedulers'[id].doc = "live"
              /\ ~schedulers'[id].isActive
              /\ (schedulers[id].isActive \/ schedulers[id].nextRun = None))
             => schedulers'[id].nextRun = None
      /\ \A k \in TickSlots :
           /\ TickQueries(k) =>
                \A i \in 1 .. Len(ticks'[k].due) :
                   schedulers[ticks'[k].due[i]].isActive
           /\ (ticks[k].pc = "add" /\ ticks'[k] # ticks[k] /\ ticks'[k].pc # "caught"
                 /\ Len(jobs') > Len(jobs)) =>
                jobs'[Len(jobs')].schedulerId = Head(ticks[k].due)
    ]_vars

\* the record the processor's execution stores in this step
WorkerAppends(status) ==
  schedulers'[worker.id].executionHistory
    = Append(schedulers[worker.id].executionHistory,
             ExecutionRecord(status, worker.matchesCollected,
                             worker.clubsProcessed))

IsDue(id) ==
  /\ Live(id) /\ schedulers[id].isActive
  /\ schedulers[id].nextRun # None /\ schedulers[id].nextRun <= now

\* C18: the query of a tick returns exactly the tasks active and due, and
\* a job a tick adds is a waiting job (no delay) of the task the tick is
\* dealing with, which has no waiting or active job when it is added.
C18_TickEnqueuesDueUnqueued ==
  [][ \A k \in TickSlots :
        /\ TickQueries(k) =>
             \A id \in SchedulerIds :
                IsDue(id) <=> (\E i \in 1 .. Len(ticks'[k].due) :
                                  ticks'[k].due[i] = id)
        /\ (ticks[k].pc = "add" /\ ticks'[k] # ticks[k] /\ ticks'[k].pc # "caught"
              /\ Len(jobs') > Len(jobs)) =>
             /\ jobs'[Len(jobs')].schedulerId = Head(ticks[k].due)
             /\ jobs'[Len(jobs')].state = "waiting"
             /\ ~isAlreadyQueued(Head(ticks[k].due))
    ]_vars

\* job j fails an attempt in this step
AttemptFails(j) == jobs'[j].attemptsMade > jobs[j].attemptsMade

InWindow(t, cfg) ==
  /\ getDay(t) \in cfg.daysOfWeek
  /\ cfg.startHour <= getHours(t) /\ getHours(t) <= cfg.endHour

\* C20: the processor begins an execution only inside the schedule window
\* of the task: on a weekday of daysOfWeek, at an hour from startHour to
\* endHour.
C20_RunsInsideWindow ==
  [][ (worker.pc = "idle" /\ worker'.pc # "idle") =>
        InWindow(now, schedulers[worker'.id].scheduleConfig) ]_vars

\* a tick of the Trigger Loop that met an error of the store or of the queue
\* ends
TickFailing(k) == ticks[k].pc = "caught" /\ ticks'[k].pc = "idle"

\* a tick ends having dealt with its last due scheduler without an error
TickSucceeding(k) ==
  ticks[k].pc \in {"scan", "add"} /\ ticks'[k].pc = "idle"

(* C16: a tick of the Trigger Loop whose store query or queue access fails *)
(* adds one to the consecutive-error counter and a successful tick resets  *)
(* it to zero; when the counter reaches 5 the loop is stopped with its     *)
(* timer disarmed, and a stopped loop runs no timer tick.                  *)
C16_FailuresCountedThenStop ==
  [][ \A k \in TickSlots :
        /\ TickFailing(k) =>
              /\ cron'.errorCount = cron.errorCount + 1
              /\ cron'.errorCount >= MAX_CONSECUTIVE_ERRORS =>
                    ~cron'.isRunning /\ cron'.timers = 0
        /\ TickSucceeding(k) => cron'.errorCount = 0
        /\ ~cron.isRunning => ~TimerTick(k) ]_vars

\* start() is called while the loop runs, stop() while it is stopped
StartWhileRunning == cron.isRunning /\ \E k \in TickSlots : StartSchedulerCron(k)
StopWhileStopped == ~cron.isRunning /\ StopSchedulerCron

\* the module state is as it was and the call has returned false
ReportedNoOp ==
  /\ cron'.isRunning = cron.isRunning
  /\ cron'.cronInterval = cron.cronInterval
  /\ cron'.timers = cron.timers
  /\ cron'.errorCount = cron.errorCount
  /\ cron'.lastCheckTime = cron.lastCheckTime
  /\ ticks' = ticks
  /\ ~cron'.returned

(* C17: start() while the Trigger Loop runs and stop() while it is stopped *)
(* change neither the running flag, the timer, the error counter nor the   *)
(* last-tick time and return false; after any sequence of calls at most    *)
(* one periodic timer is armed, and it is armed exactly while the loop     *)
(* runs.                                                                   *)
C17_StartStopIdempotent ==
  [][ /\ StartWhileRunning => ReportedNoOp
      /\ StopWhileStopped => ReportedNoOp
      /\ cron'.timers <= 1
      /\ cron'.timers = 1 <=> cron'.isRunning ]_vars

\* start() has been called on a running loop: false came back and one timer
\* is armed
C17_Witness == cron.isRunning /\ ~cron.returned /\ cron.timers = 1

----------------------------------------------------------------------------
(* getSchedulerExecutionHistory: the history query *)

\* one record put into a list that is newest first, behind the records that
\* are as new as it is: Array.prototype.sort is stable
RECURSIVE InsertNewestFirst(_, _)
InsertNewestFirst(sorted, rec) ==
  IF sorted = << >> THEN <<rec>>
  ELSE IF Head(sorted).timestamp >= rec.timestamp
    THEN <<Head(sorted)>> \o InsertNewestFirst(Tail(sorted), rec)
  ELSE <<rec>> \o sorted

\* the list left as it is stored, oldest first
SortNewestFirst_Unsorted(list) == list

\* .sort((a, b) => new Date(b.timestamp).getTime() - new Date(a.timestamp).getTime())
RECURSIVE SortNewestFirst(_)
SortNewestFirst(list) ==
  IF list = << >> THEN << >>
  ELSE InsertNewestFirst(SortNewestFirst(SubSeq(list, 1, Len(list) - 1)),
                         list[Len(list)])

\* .slice(0, limit), for a limit that is not negative
SliceTo(list, limit) ==
  SubSeq(list, 1, IF limit < Len(list) THEN limit ELSE Len(list))

getSchedulerExecutionHistory(id, limit) ==
  IF ~Live(id) THEN << >>
  ELSE SliceTo(SortNewestFirst(schedulers[id].executionHistory), limit)

\* the limits a history is asked with
Limits == 0 .. MaxHistory + 1

Min(a, b) == IF a < b THEN a ELSE b

\* how often rec is in list
Count(list, rec) == Cardinality({i \in 1 .. Len(list) : list[i] = rec})

\* got holds the most recent records of stored, newest first
MostRecentOf(got, stored) ==
  /\ \A i \in 1 .. Len(got) - 1 : got[i].timestamp >= got[i + 1].timestamp
  /\ \A i \in 1 .. Len(got) : Count(got, got[i]) <= Count(stored, got[i])
  /\ \A i \in 1 .. Len(stored) :
        Count(got, stored[i]) < Count(stored, stored[i]) =>
          \A j \in 1 .. Len(got) : got[j].timestamp >= stored[i].timestamp

(* C21: the history of a task asked with a limit is the most recent of its *)
(* stored records, newest first by timestamp, exactly min(limit, number of *)
(* stored records) of them; the history of a missing task is empty.        *)
C21_HistoryNewestFirst ==
  \A id \in SchedulerIds, limit \in Limits :
     LET got == getSchedulerExecutionHistory(id, limit)
     IN IF Live(id)
          THEN /\ Len(got) = Min(limit, Len(schedulers[id].executionHistory))
               /\ MostRecentOf(got, schedulers[id].executionHistory)
          ELSE got = << >>

\* two records of different times are stored and the history asked with
\* limit 1 is the later one
C21_Witness ==
  \E id \in SchedulerIds :
     /\ Live(id)
     /\ Len(schedulers[id].executionHistory) = 2
     /\ schedulers[id].executionHistory[1].timestamp
          < schedulers[id].executionHistory[2].timestamp
     /\ getSchedulerExecutionHistory(id, 1) = <<schedulers[id].executionHistory[2]>>

\* list begins with the records of old, unchanged and in their order
ExtendsHistory(old, list) ==
  /\ Len(list) >= Len(old)
  /\ SubSeq(list, 1, Len(old)) = old

(* C22: the execution history of a task is append-only: whatever happens   *)
(* (a run storing its outcome, start, stop, an update of the schedule      *)
(* window), as long as the task is not deleted every stored record stays   *)
(* as it is and where it is, and the history does not get shorter.         *)
C22_HistoryAppendOnly ==
  [][ \A id \in SchedulerIds :
        (Live(id) /\ schedulers'[id].doc = "live") =>
           ExtendsHistory(schedulers[id].executionHistory,
                          schedulers'[id].executionHistory) ]_vars

\* a task that has been stopped after two of its runs were recorded
C22_Witness ==
  \E id \in SchedulerIds :
     /\ Live(id)
     /\ ~schedulers[id].isActive
     /\ schedulers[id].nextRun = None
     /\ Len(schedulers[id].executionHistory) = 2

(* C23: once a task is deleted neither the task nor any of its records is  *)
(* in the store, and nothing that happens later (a run of it that was in   *)
(* flight ending, a pending or retried job of it, a tick of the Trigger    *)
(* Loop) brings the task back or stores a record for it.                   *)
C23_DeletedStaysGone ==
  [][ \A id \in SchedulerIds :
        (schedulers[id].doc = "deleted" \/ schedulers'[id].doc = "deleted") =>
           /\ schedulers'[id] = DeletedDoc
           /\ \A limit \in Limits :
                 SliceTo(SortNewestFirst(schedulers'[id].executionHistory),
                         limit) = << >> ]_vars

\* the processor has stored the outcome of a run whose task was deleted
\* while it ran: nothing was stored
C23_Witness ==
  /\ worker.pc = "setnext"
  /\ worker.records = << >>
  /\ schedulers[worker.id].doc = "deleted"
  /\ schedulers[worker.id].executionHistory = << >>

\* the manual run of slot k ends and a record is appended for its task
ManualAppends(k) ==
  /\ manual[k].pc \in {"record", "catch"}
  /\ manual'[k].pc = "idle"
  /\ Len(schedulers'[manual[k].id].executionHistory)
       = Len(schedulers[manual[k].id].executionHistory) + 1

(* C24: a manual run-now of an existing active task returns a result whose *)
(* status, matchesCollected, clubsProcessed and error are those of the     *)
(* record the call has appended to the history of the task.                *)
C24_ManualResultIsRecord ==
  [][ \A k \in ManualSlots :
        ManualAppends(k) =>
          LET rec == LastOf(schedulers', manual[k].id)
              res == ManualResult(manual[k])
          IN /\ res.status = rec.status
             /\ res.matchesCollected = rec.matchesCollected
             /\ res.clubsProcessed = rec.clubsProcessed
             /\ res.error = rec.error ]_vars

\* a manual run that ended in its catch block after one club has stored its
\* record: no job was ever queued, so the record is that of the manual run
C24_Witness ==
  \E id \in SchedulerIds :
     /\ jobs = << >>
     /\ \A k \in ManualSlots : manual[k].pc = "idle"
     /\ Len(schedulers[id].executionHistory) = 1
     /\ LastRecord(id).status = "error"
     /\ LastRecord(id).clubsProcessed = 1

\* the execution run has made no Data Source call
NoFetch(run) == ~run.fetchOk /\ ~run.fetchFailed

\* rec is a success with nothing processed and nothing collected
EmptySuccess(rec) ==
  /\ rec.status = "success"
  /\ rec.clubsProcessed = 0
  /\ rec.matchesCollected = 0
  /\ ~rec.error

\* the processor begins a run, stores the outcome of its loop
WorkerBegins == worker.pc = "idle" /\ worker'.pc # "idle"
WorkerStoresOutcome ==
  /\ worker.pc = "record"
  /\ worker'.pc = "setnext"
  /\ Live(worker.id)

(* C25: a run of an active task that has no clubs goes through its loop    *)
(* without an error and without a Data Source call, and the outcome it     *)
(* stores is a success with clubsProcessed 0 and matchesCollected 0; so    *)
(* for a queued run as for a manual one.                                   *)
C25_NoClubsIsEmptySuccess ==
  [][ /\ (WorkerBegins /\ worker'.clubs = << >>) =>
            worker'.pc = "record" /\ NoFetch(worker')
      /\ (WorkerStoresOutcome /\ worker.clubs = << >>) =>
            NoFetch(worker) /\ EmptySuccess(LastOf(schedulers', worker.id))
      /\ \A k \in ManualSlots :
            /\ (manual[k].pc = "idle" /\ manual'[k].pc # "idle"
                  /\ manual'[k].clubs = << >>) =>
                  manual'[k].pc = "record" /\ NoFetch(manual'[k])
            /\ (ManualAppends(k) /\ manual[k].clubs = << >>) =>
                  /\ NoFetch(manual[k])
                  /\ EmptySuccess(LastOf(schedulers', manual[k].id))
                  /\ ManualResult(manual[k]).status = "success" ]_vars

\* the queued run of a task without clubs has stored its outcome
C25_Witness ==
  /\ worker.pc = "setnext"
  /\ worker.clubs = << >>
  /\ worker.records = <<"success">>
  /\ EmptySuccess(LastRecord(worker.id))

\* the clubs of the list that are in the Club collection, in their order
IsRegistered(clubId) == clubId \in RegisteredClubs
RegisteredOf(clubs) == SelectSeq(clubs, IsRegistered)

\* the execution run has skipped the clubs that are not registered
SkipsAbsent(run) ==
  /\ \A i \in 1 .. Len(run.fetched) : run.fetched[i] \in RegisteredClubs
  /\ run.clubsProcessed = Len(run.fetched)
  /\ run.clubsProcessed <= Len(run.clubs)
  /\ run.fault # "lookup" =>
        /\ run.fetched = RegisteredOf(run.clubs)
        /\ run.fetchFailed \/ run.fetchOk \/ run.fetched = << >>

(* C26: a club of the task that is not in the Club collection is skipped   *)
(* without an error: it is not counted in clubsProcessed, no fetch is made *)
(* for it and the loop goes on with the next club; a run whose loop has    *)
(* not thrown has fetched and counted exactly the clubs of the task that   *)
(* are registered, so clubsProcessed never exceeds the number of clubs.    *)
C26_AbsentClubSkipped ==
  /\ worker.pc # "idle" => SkipsAbsent(worker)
  /\ \A k \in ManualSlots : manual[k].pc # "idle" => SkipsAbsent(manual[k])

\* a queued run of clubs 1, 3, 2, of which 3 is not registered, has ended its
\* loop and stored clubsProcessed 2
C26_Witness ==
  /\ worker.pc = "setnext"
  /\ worker.clubs = <<1, 3, 2>>
  /\ worker.fetched = <<1, 2>>
  /\ worker.records = <<"success">>
  /\ LastRecord(worker.id).clubsProcessed = 2

\* the history of the task of execution run gets a record
HistoryGrows(run) ==
  Len(schedulers'[run.id].executionHistory)
    > Len(schedulers[run.id].executionHistory)

(* C29: one execution of the Runner, for one attempt of a job or for one   *)
(* manual run-now, appends at most one record to the history of its task,  *)
(* whatever fails after the record is stored (the update of nextRun, the   *)
(* add of the next job).                                                   *)
C29_OneRecordPerExecution ==
  [][ /\ (worker.pc # "idle" /\ worker' # worker /\ HistoryGrows(worker)) =>
            worker.records = << >>
      /\ \A k \in ManualSlots :
            (manual[k].pc # "idle" /\ manual'[k] # manual[k]
               /\ HistoryGrows(manual[k])) =>
                 manual[k].records = << >> ]_vars

(* C30: the processor begins the collection work of a job only if the task *)
(* is due at that moment, that is active with a nextRun that is not in the *)
(* future; a delayed job the task scheduled for itself, or a retry, that   *)
(* is left from before a stop and start, an update of the window or a      *)
(* manual run does not run a task whose nextRun is still to come.          *)
C30_QueuedRunOnlyWhenDue ==
  [][ WorkerBegins => IsDue(worker'.id) ]_vars

----------------------------------------------------------------------------
(* C31: Once stopSchedulerCron() has returned and until the next
   startSchedulerCron(), a check the cron service itself began (from its
   start or from its interval) adds no job to the queue and leaves the
   error counter and the last-check time as they are - also a check that
   was still in progress when the stop was made. *)

StoppedThroughout == ~cron.isRunning /\ ~cron'.isRunning

CronCheckSteps(k) == ticks[k].by = "cron" /\ ticks'[k] # ticks[k]

C31_StoppedLoopIsSilent ==
  [][ StoppedThroughout =>
        \A k \in TickSlots :
           CronCheckSteps(k) =>
              /\ jobs' = jobs
              /\ cron'.lastCheckTime = cron.lastCheckTime
              /\ cron'.errorCount = cron.errorCount ]_vars

----------------------------------------------------------------------------
(* C36: in every reachable state of the cron service the interval timer is
   armed (and its handle held) if and only if isRunning is true, and while
   isRunning is true errorCount is below MAX_CONSECUTIVE_ERRORS, the bound
   getServicesHealth tests. *)
C36_ArmedIffRunning ==
  /\ cron.timers > 0 <=> cron.isRunning
  /\ cron.cronInterval <=> cron.isRunning
  /\ cron.isRunning => cron.errorCount < MAX_CONSECUTIVE_ERRORS

\* C36 witness: the loop has been stopped, no timer is armed, and a check
\* made by triggerManualCheck has met a queue error
C36_Witness ==
  /\ ~cron.isRunning
  /\ cron.timers = 0
  /\ \E k \in TickSlots : ticks[k].by = "manual" /\ ticks[k].pc = "caught"

----------------------------------------------------------------------------
(* C34: every record a queued or a manual run stores has status success or
   error, never partial, and its status is success exactly when the loop
   over the clubs of the run ended without an exception. *)

\* the run makes the step that appends a record to the history of its task
StoresRecord(run, after) ==
  /\ run.pc \in {"record", "catch"}
  /\ after # run
  /\ HistoryGrows(run)

\* the loop over the clubs has gone past the last club: nothing it awaits
\* has thrown
LoopFinished(run) == run.fault # "lookup"

StatusTellsLoop(run) ==
  LET rec == LastOf(schedulers', run.id)
  IN /\ rec.status \in {"success", "error"}
     /\ rec.status = "success" <=> LoopFinished(run)

C34_SuccessIffLoopFinished ==
  [][ /\ StoresRecord(worker, worker') => StatusTellsLoop(worker)
      /\ \A k \in ManualSlots :
            StoresRecord(manual[k], manual'[k]) => StatusTellsLoop(manual[k])
    ]_vars

----------------------------------------------------------------------------
(* C35: when a queued run completes with success the processor adds exactly
   one job, for the scheduler of the run, with delay max(0, nextRun - now)
   for the nextRun it has just computed and stored: the job is delayed until
   nextRun when nextRun is still ahead and waiting when it is not, and no
   job is taken by the processor before the time it is delayed to.  When a
   run ends in its catch block the processor adds no job. *)

WorkerCompletes == worker.pc = "schedule" /\ worker'.pc = "idle"

WorkerEndsInError == worker.pc = "catch" /\ worker'.pc = "idle"

FollowUpAdded ==
  /\ Len(jobs') = Len(jobs) + 1
  /\ LET job == jobs'[Len(jobs')]
     IN /\ job.schedulerId = worker.id
        /\ job.attemptsMade = 0
        /\ IF worker.nextRun > now
             THEN job.state = "delayed" /\ job.runAt = worker.nextRun
             ELSE job.state = "waiting"

C35_OneFollowUpAtNextRun ==
  [][ /\ WorkerCompletes => FollowUpAdded
      /\ WorkerEndsInError => Len(jobs') = Len(jobs)
      /\ WorkerBegins => jobs[worker'.job].runAt <= now ]_vars

\* C35 witness: a run has completed and its follow-up job is in the queue,
\* delayed to the nextRun the run stored, which is still ahead
C35_Witness ==
  /\ worker.pc = "idle"
  /\ \E j \in 1 .. Len(jobs) : \E f \in 1 .. Len(jobs) :
        /\ j < f
        /\ jobs[j].state = "completed"
        /\ jobs[f].schedulerId = jobs[j].schedulerId
        /\ jobs[f].state = "delayed"
        /\ jobs[f].attemptsMade = 0
        /\ Live(jobs[f].schedulerId)
        /\ jobs[f].runAt = schedulers[jobs[f].schedulerId].nextRun
        /\ jobs[f].runAt > now

----------------------------------------------------------------------------
(* LiveSpec: the engine with its scheduling. The interval fires while it
   is armed and a check goes on with the step it is at; Bull promotes a
   delayed job whose time has come and hands the processor the waiting job,
   and the processor goes on with the step it is at. Nothing is assumed of
   the calls from outside, of the clock, or of the store and the queue
   failing. *)

CheckProgress ==
  \E k \in TickSlots :
     TimerTick(k) \/ TickCheck(k) \/ TickAdd(k) \/ TickCaught(k)

QueueProgress ==
  \/ \E j \in 1 .. MaxJobs : PromoteDelayed(j)
  \/ ProcessJob
  \/ ProcessJobRejected
  \/ WorkerRecord
  \/ WorkerSetNextRun
  \/ \E addThrows \in BOOLEAN : WorkerScheduleNext(addThrows)
  \/ WorkerCatch

Fairness == WF_vars(CheckProgress) /\ WF_vars(QueueProgress)

LiveSpec == Init /\ [][Next]_vars /\ Fairness

\* an execution has just appended a record for id and its nextRun is ahead
Served(id) ==
  /\ Live(id)
  /\ schedulers[id].executionHistory # << >>
  /\ LastRecord(id).timestamp = now
  /\ schedulers[id].nextRun > now

\* the loop has been stopped, or the task has been stopped or deleted
Withdrawn(id) ==
  \/ ~cron.isRunning
  \/ ~Live(id)
  \/ ~schedulers[id].isActive

\* the task has been given a new nextRun without a run (updateScheduler and
\* startScheduler compute one)
Rescheduled(id) == Live(id) /\ schedulers[id].nextRun > now /\ ~Served(id)

\* a check has met an error of the store or of the queue
CheckFailed == \E k \in TickSlots : ticks[k].pc = "caught"

\* the model goes no further: every job or every record it has room for is
\* there
AtBounds(id) ==
  \/ Len(jobs) >= MaxJobs
  \/ Live(id) /\ Len(schedulers[id].executionHistory) >= MaxHistory

----------------------------------------------------------------------------
(* CacheSpec: getClubMatches, clearExpiredCache and clearAllCache called   *)
(* in any order as the minutes pass.                                       *)

CacheInit ==
  /\ now = StartTime
  /\ envSteps = 0
  /\ schedulers = [id \in SchedulerIds |-> NoDoc]
  /\ jobs = << >>
  /\ waitList = << >>
  /\ worker = IdleRun
  /\ manual = [k \in ManualSlots |-> IdleRun]
  /\ cron = [isRunning |-> FALSE, cronInterval |-> FALSE, timers |-> 0,
             lastCheckTime |-> None, errorCount |-> 0, returned |-> TRUE]
  /\ ticks = [k \in TickSlots |-> IdleTick]
  /\ calcNow = 0
  /\ calcCfg = NoConfig
  /\ calcResult = None
  /\ calcBy = "none"
  /\ apiCache = [key \in CacheKeys |-> NoEntry]
  /\ cacheNow = 0
  /\ cacheLast = NoCall
  /\ pending = [c \in CallSlots |-> NoPending]
  /\ requested = [key \in CacheKeys |-> None]

CacheNext ==
  \/ \E c \in CallSlots, args \in CacheArgs, ok \in BOOLEAN :
        GetClubMatches(c, args, ok)
  \/ \E c \in CallSlots : FetchAnswered(c)
  \/ ClearExpiredCache
  \/ ClearAllCache
  \/ CacheMinute
CacheSpec == CacheInit /\ [][CacheNext]_vars

\* the age of what is stored under key, in milliseconds
AgeMs(key) == (cacheNow - apiCache[key].timestamp) * MsPerMinute

\* getClubMatches is called with args
CallOf(args) ==
  \E c \in CallSlots, ok \in BOOLEAN : GetClubMatches(c, args, ok)

\* the call in slot c sends its request to EA
SendsRequest(c) == pending[c].state = "free" /\ pending'[c].state = "fetching"

\* the call in slot c gets the 200 answer of EA
GetsAnswer(c) ==
  /\ pending[c].state = "fetching"
  /\ pending[c].ok
  /\ pending'[c].state = "free"

(* C27: getClubMatches returns a cached answer only if that answer was     *)
(* given for the same club id, platform and match type and stored less     *)
(* than 5 minutes before the call; a call that finds its entry 5 minutes   *)
(* old or older goes to EA, and an answer it gets replaces the entry; an   *)
(* entry leaves the cache only when it has expired or when the whole cache *)
(* is cleared, however many entries there are.                             *)
C27_CacheServesFreshOnly ==
  [][ /\ cacheLast'.kind = "cached" =>
            /\ cacheLast'.data.of = cacheLast'.args
            /\ (cacheLast'.at - cacheLast'.timestamp) * MsPerMinute < CACHE_TTL
      /\ \A args \in CacheArgs :
            (/\ CallOf(args)
             /\ apiCache[cacheKey(args)] # NoEntry
             /\ AgeMs(cacheKey(args)) >= CACHE_TTL) =>
               \E c \in CallSlots :
                  SendsRequest(c) /\ pending'[c].args = args
      /\ \A c \in CallSlots :
            GetsAnswer(c) =>
               LET key == cacheKey(pending[c].args)
               IN /\ cacheLast'.kind = "fetched"
                  /\ cacheLast'.args = pending[c].args
                  /\ apiCache'[key].data = cacheLast'.data
                  /\ apiCache'[key].timestamp = cacheNow
                  /\ (apiCache[key] # NoEntry /\ AgeMs(key) >= CACHE_TTL) =>
                        apiCache'[key].data # apiCache[key].data
      /\ \A key \in CacheKeys :
            (apiCache[key] # NoEntry /\ apiCache'[key] = NoEntry) =>
               AgeMs(key) >= CACHE_TTL \/ ClearAllCache ]_vars

\* every key holds an entry, and the latest call found its entry exactly 5
\* minutes old and replaced it by a new answer of EA
C27_Witness ==
  /\ \A key \in CacheKeys : apiCache[key] # NoEntry
  /\ cacheLast.kind = "fetched"
  /\ cacheLast.found = 0
  /\ cacheLast.at = 5
  /\ apiCache[cacheKey(cacheLast.args)].timestamp = 5

(* C37: for one cache key, two requests that EA answers with success are
   never sent within 5 minutes of each other, also when several calls of
   getClubMatches for that key are in progress at the same time. *)
C37_OneRequestPerKeyPerWindow ==
  [][ \A c \in CallSlots :
        (SendsRequest(c) /\ pending'[c].ok) =>
           LET key == cacheKey(pending'[c].args)
           IN \/ requested[key] = None
              \/ (cacheNow - requested[key]) * MsPerMinute >= CACHE_TTL ]_vars

----------------------------------------------------------------------------
(* CalcSpec: the calculator applied to every instant of one week and every *)
(* schedule window.                                                        *)

CalcHours == 0 .. (HoursPerDay - 1)
CalcDays == 0 .. (DaysPerWeek - 1)
CalcInstants == 0 .. (DaysPerWeek * TicksPerDay - 1)

CalcInit ==
  /\ now = StartTime
  /\ envSteps = 0
  /\ schedulers = [id \in SchedulerIds |-> NoDoc]
  /\ jobs = << >>
  /\ waitList = << >>
  /\ worker = IdleRun
  /\ manual = [k \in ManualSlots |-> IdleRun]
  /\ cron = [isRunning |-> FALSE, cronInterval |-> FALSE, timers |-> 0,
             lastCheckTime |-> None, errorCount |-> 0, returned |-> TRUE]
  /\ ticks = [k \in TickSlots |-> IdleTick]
  /\ calcNow \in CalcInstants
  /\ calcCfg \in [startHour : CalcHours, endHour : {23},
                  daysOfWeek : SUBSET CalcDays]
  /\ calcResult = None
  /\ calcBy = "none"
  /\ apiCache = [key \in CacheKeys |-> NoEntry]
  /\ cacheNow = 0
  /\ cacheLast = NoCall
  /\ pending = [c \in CallSlots |-> NoPending]
  /\ requested = [key \in CacheKeys |-> None]

\* scheduler.actions.ts calculateNextRun(scheduleConfig) at calcNow
CalcActions ==
  /\ calcBy = "none"
  /\ calcResult' = calculateNextRun(calcNow, calcCfg)
  /\ calcBy' = "actions"
  /\ UNCHANGED <<engineVars, calcNow, calcCfg, cacheVars>>

\* schedulerService.ts calculateNextRun(scheduleConfig) at calcNow
CalcService ==
  /\ calcBy = "none"
  /\ calcResult' = calculateNextRunService(calcNow, calcCfg)
  /\ calcBy' = "service"
  /\ UNCHANGED <<engineVars, calcNow, calcCfg, cacheVars>>

\* the same call once more, at the same instant, by either copy
CalcActionsAgain ==
  /\ calcBy \in {"actions", "service"}
  /\ calcResult' = calculateNextRun(calcNow, calcCfg)
  /\ calcBy' = "twice"
  /\ UNCHANGED <<engineVars, calcNow, calcCfg, cacheVars>>

CalcServiceAgain ==
  /\ calcBy \in {"actions", "service"}
  /\ calcResult' = calculateNextRunService(calcNow, calcCfg)
  /\ calcBy' = "twice"
  /\ UNCHANGED <<engineVars, calcNow, calcCfg, cacheVars>>

CalcNext == CalcActions \/ CalcService \/ CalcActionsAgain \/ CalcServiceAgain
CalcSpec == CalcInit /\ [][CalcNext]_vars

----------------------------------------------------------------------------
(* Properties of the calculator, checked under CalcSpec *)

\* the instant of weekday day, hour h in the week CalcInstants spans
WeekInstant(day, h) == (day * HoursPerDay + h) * TicksPerHour

Qualifies(t, cfg) ==
  /\ getDay(t) \in cfg.daysOfWeek
  /\ TimeOfDay(t) = cfg.startHour * TicksPerHour

\* C6: for a non-empty daysOfWeek the result is strictly after now, on a
\* weekday of daysOfWeek, at startHour:00:00.
C6_NextRunQualifies ==
  (calcBy # "none" /\ calcCfg.daysOfWeek # {}) =>
     /\ calcResult > calcNow
     /\ Qualifies(calcResult, calcCfg)

\* C6 witness: the calculator was called at the very instant a run of the
\* window is due, and answered with a later one.
C6_Witness ==
  /\ calcBy # "none"
  /\ calcCfg.daysOfWeek # {}
  /\ Qualifies(calcNow, calcCfg)
  /\ calcResult > calcNow

\* C7: for a non-empty daysOfWeek no instant between now and the result
\* qualifies (every instant at startHour:00:00 is startHour of some day
\* counted from today); and for startHour 20, days {2, 3}, now Monday 10:00
\* the result is Tuesday 20:00.
C7_FirstQualifying ==
  (calcBy # "none" /\ calcCfg.daysOfWeek # {}) =>
     /\ \A d \in 0 .. DaysPerWeek :
          LET t == AtHourOfDay(calcNow, d, calcCfg.startHour)
          IN ~(calcNow < t /\ t < calcResult /\ Qualifies(t, calcCfg))
     /\ (calcCfg.startHour = 20 /\ calcCfg.daysOfWeek = {2, 3}
           /\ calcNow = WeekInstant(Monday, 10))
          => calcResult = WeekInstant(2, 20)

\* C7 witness: the example, answered by the copy of scheduler.actions.ts
C7_Witness ==
  /\ calcBy = "actions"
  /\ calcCfg.startHour = 20 /\ calcCfg.daysOfWeek = {2, 3}
  /\ calcNow = WeekInstant(Monday, 10)
  /\ calcResult = WeekInstant(2, 20)

ScanFindsNone == ScanDays(calcNow, calcCfg, 0) = None

\* the one day of the window is today, and today's startHour is not after now
OnlyTodayAndPast ==
  /\ calcCfg.daysOfWeek = {getDay(calcNow)}
  /\ AtHourOfDay(calcNow, 0, calcCfg.startHour) <= calcNow

====
